---- MODULE Spec2Model ----
(***************************************************************************)
(* The two claim-line classifiers of the repository:                       *)
(*   src/flagger.py   add_proc_code_flag(df): the temporal classifier      *)
(*   src/ptscript.py  run_query / add_proc_code_flag(df, ...): the         *)
(*                    edit-pair classifier and its Athena lookup           *)
(* A behaviour is one classification pass of one of the two.               *)
(***************************************************************************)
EXTENDS Integers, Sequences, FiniteSets, TLC

\* ------------------------------------------------------------ bounds
\* Rows of the table given to the temporal classifier.
MaxLines == 4
\* Rows of the table given to the edit-pair classifier.
MaxClaimLines == 2

\* ------------------------------------------------------------ values
\* A missing value (NaN, NaT, None) is the empty tuple; a present value v is <<v>>.
\* A string is a sequence of one-character strings, so '' is << <<>> >>.
Null == << >>

Some(v) == <<v>>

NaT == Null

\* plan_paid_amount > 75
PaidThreshold == 75

\* ------------------------------------------------------------ strings
RECURSIVE LStrip(_)
LStrip(s) ==
  IF s # << >> /\ Head(s) = " " THEN LStrip(Tail(s)) ELSE s

RECURSIVE RStrip(_)
RStrip(s) ==
  IF s # << >> /\ s[Len(s)] = " " THEN RStrip(SubSeq(s, 1, Len(s) - 1)) ELSE s

\* str.strip() of one string.
Strip(s) == RStrip(LStrip(s))

LowerChar(c) ==
  CASE c = "A" -> "a"
    [] c = "B" -> "b"
    [] c = "T" -> "t"
    [] OTHER -> c

\* str.lower() of one string.
Lower(s) == [i \in DOMAIN s |-> LowerChar(s[i])]

\* Series.str.strip(): a missing value stays missing.
StrStrip(x) == IF x = Null THEN Null ELSE Some(Strip(x[1]))

\* fillna('') then str.strip().str.lower()
NormModifier(x) ==
  LET filled == IF x = Null THEN Some(<< >>) ELSE x
  IN  Some(Lower(Strip(filled[1])))

Digits == {"0", "1", "2", "3", "4", "5", "6", "7", "8", "9"}

DigitVal(c) ==
  CASE c = "0" -> 0 [] c = "1" -> 1 [] c = "2" -> 2 [] c = "3" -> 3
    [] c = "4" -> 4 [] c = "5" -> 5 [] c = "6" -> 6 [] c = "7" -> 7
    [] c = "8" -> 8 [] c = "9" -> 9

RECURSIVE DigitsValue(_)
DigitsValue(s) ==
  IF s = << >> THEN 0
  ELSE 10 * DigitsValue(SubSeq(s, 1, Len(s) - 1)) + DigitVal(s[Len(s)])

\* pd.to_numeric(errors='coerce') on the quantity texts of the model (digit
\* strings and texts that are no number): what does not parse becomes NaN.
ToNumeric(x) ==
  IF x = Null THEN Null
  ELSE LET s == Strip(x[1])
       IN  IF s # << >> /\ \A i \in DOMAIN s : s[i] \in Digits
           THEN Some(DigitsValue(s))
           ELSE Null

\* The calendar days a claim_received_date text of the model can denote.
Days == {1, 2, 3}

\* pd.to_datetime(errors='coerce'): the raw text of a day becomes that day, any
\* other text (written 0 here) is no date and becomes NaT.
ToDatetime(r) == IF r \in Days THEN Some(r) ELSE NaT

\* == on two Timestamps: NaT equals nothing, itself included.
DateEq(a, b) == a # NaT /\ b # NaT /\ a = b

\* ------------------------------------------------------------ state
VARIABLES
  tdf,          \* flagger: the table passed to add_proc_code_flag, as given
  tpc,          \* flagger: "idle" | "start" | "done" | "error"
  tout,         \* flagger: the returned table (Null until the pass returns)
  tlocals,      \* flagger: first_date/last_date of every group of 2+ filtered rows
  edf,          \* ptscript: the table passed to add_proc_code_flag, as given
  epc,          \* ptscript: "idle" | "start" | "poll" | "test" | "fetch" | "done" | "error"
  eerr,         \* ptscript: the exception add_proc_code_flag raised, or Null
  eout,         \* ptscript: the returned table (Null until the pass returns)
  issued,       \* ptscript: start_query_execution has been called
  remote,       \* Athena: the state of the query execution
  query_state,  \* ptscript: run_query's query_state, Null before the first poll
  referance_data, \* ptscript: what run_query returned (Null: nothing, or None)
  failure       \* what went wrong in the lookup, Null while nothing has

tvars == <<tdf, tpc, tout, tlocals>>

evars == <<edf, epc, eerr, eout, issued, remote, query_state, referance_data, failure>>

vars == <<tvars, evars>>

\* ------------------------------------------------------------ flagger.py
Code99213 == <<"9", "9", "2", "1", "3">>

\* The raw grouping columns a row of the model can carry: KeyPlain is in normal
\* form already, KeyPadded is not and normalises to another key, KeyBadQty has a
\* quantity that is no number.
KeyPlain ==
  [member_medicare_id |-> Some(<<"M", "1">>), procedure_code |-> Some(Code99213),
   proc_modifier |-> Null, proc_modifier2 |-> Null, proc_modifier4 |-> Null,
   proc_modifier5 |-> Null, quantity |-> Some(<<"1">>)]

KeyPadded ==
  [member_medicare_id |-> Some(<<"M", "1">>),
   procedure_code |-> Some(<<" ">> \o Code99213 \o <<" ">>),
   proc_modifier |-> Some(<<" ", "T", "C">>), proc_modifier2 |-> Some(<< >>),
   proc_modifier4 |-> Null, proc_modifier5 |-> Null, quantity |-> Some(<<"1">>)]

KeyBadQty ==
  [member_medicare_id |-> Some(<<"M", "1">>), procedure_code |-> Some(Code99213),
   proc_modifier |-> Null, proc_modifier2 |-> Null, proc_modifier4 |-> Null,
   proc_modifier5 |-> Null, quantity |-> Some(<<"x">>)]

\* Raw claim_received_date texts: 0 is a text that is no date.
RawDates == Days \cup {0}

\* The rows a table of the model is made of. The rows of KeyPlain paid above the
\* threshold take every date text, those paid at the threshold the first and the
\* last day; the rows of the two other keys, which are there to put further
\* cohorts beside that one, take fewer.
RawLines ==
  {KeyPlain @@ [plan_paid_amount |-> 100, claim_received_date |-> d] : d \in RawDates}
  \cup
  {KeyPlain @@ [plan_paid_amount |-> PaidThreshold, claim_received_date |-> d] :
     d \in {1, 3}}
  \cup
  {k @@ [plan_paid_amount |-> 100, claim_received_date |-> d] :
     k \in {KeyPadded, KeyBadQty}, d \in {1, 2}}
  \cup
  {KeyPadded @@ [plan_paid_amount |-> PaidThreshold, claim_received_date |-> 1]}

\* The tables of n rows.
TemporalTables(n) == [1..n -> RawLines]

\* Lines 10-16: the data preparation, one row.
PrepareLine(l) ==
  [member_medicare_id |-> l.member_medicare_id,
   procedure_code |-> StrStrip(l.procedure_code),
   proc_modifier |-> NormModifier(l.proc_modifier),
   proc_modifier2 |-> NormModifier(l.proc_modifier2),
   proc_modifier4 |-> NormModifier(l.proc_modifier4),
   proc_modifier5 |-> NormModifier(l.proc_modifier5),
   quantity |-> ToNumeric(l.quantity),
   plan_paid_amount |-> l.plan_paid_amount,
   claim_received_date |-> ToDatetime(l.claim_received_date)]

Prepare(df) == [i \in DOMAIN df |-> PrepareLine(df[i])]

\* group_keys
GroupKey(l) ==
  <<l.member_medicare_id, l.procedure_code, l.proc_modifier, l.proc_modifier2,
    l.proc_modifier4, l.proc_modifier5, l.quantity>>

KeyHasNull(l) == LET k == GroupKey(l) IN \E c \in DOMAIN k : k[c] = Null

\* df.groupby(group_keys): dropna defaults to True, so a row with a missing
\* value in any key column belongs to no group.
GroupKeys(df) == {GroupKey(df[i]) : i \in {j \in DOMAIN df : ~KeyHasNull(df[j])}}

GroupRows(df, k) == {i \in DOMAIN df : GroupKey(df[i]) = k}

\* Filtered with >= for >.
FilteredAtLeast(df, g) == {i \in g : df[i].plan_paid_amount >= PaidThreshold}

\* group[group['plan_paid_amount'] > 75]
Filtered(df, g) == {i \in g : df[i].plan_paid_amount > PaidThreshold}

\* SortBefore with na_position='first'.
SortBeforeNaFirst(df, i, j) ==
  LET a == df[i].claim_received_date
      b == df[j].claim_received_date
  IN  IF b = NaT THEN a = NaT /\ i < j
      ELSE a = NaT \/ a[1] < b[1] \/ (a[1] = b[1] /\ i < j)

\* sort_values('claim_received_date'): ascending, na_position='last'. Rows of
\* equal date keep the order of their labels here; the flags read dates only.
SortBefore(df, i, j) ==
  LET a == df[i].claim_received_date
      b == df[j].claim_received_date
  IN  IF a = NaT THEN b = NaT /\ i < j
      ELSE b = NaT \/ a[1] < b[1] \/ (a[1] = b[1] /\ i < j)

RECURSIVE SortValues(_, _)
SortValues(df, S) ==
  IF S = {} THEN << >>
  ELSE LET m == CHOOSE i \in S : \A j \in S \ {i} : SortBefore(df, i, j)
       IN  <<m>> \o SortValues(df, S \ {m})

\* The filtered, sorted group: its row labels in order.
SortedGroup(df, g) == SortValues(df, Filtered(df, g))

FirstDate(df, group) == df[group[1]].claim_received_date

LastDate(df, group) == df[group[Len(group)]].claim_received_date

\* RowFlag with the two roles exchanged.
RowFlagSwapped(date, first_date, last_date) ==
  IF DateEq(first_date, last_date) THEN "duplicate"
  ELSE IF DateEq(date, first_date) THEN "target"
  ELSE IF DateEq(date, last_date) THEN "reference"
  ELSE "other"

\* Lines 38-47: the flag of one row of a group of 2 or more.
RowFlag(date, first_date, last_date) ==
  IF DateEq(first_date, last_date) THEN "duplicate"
  ELSE IF DateEq(date, first_date) THEN "reference"
  ELSE IF DateEq(date, last_date) THEN "target"
  ELSE "other"

\* flag_by_procedure(group): the Series it returns, label -> flag.
FlagByProcedure(df, g) ==
  LET group == SortedGroup(df, g)
      first_date == FirstDate(df, group)
      last_date == LastDate(df, group)
  IN  IF Len(group) <= 1
      THEN [i \in Filtered(df, g) |-> "other"]
      ELSE [i \in Filtered(df, g) |->
              RowFlag(df[i].claim_received_date, first_date, last_date)]

\* groupby(...).apply(flag_by_procedure): the Series returned for each group.
Applied(df) == [k \in GroupKeys(df) |-> FlagByProcedure(df, GroupRows(df, k))]

\* apply() concatenates the Series of the groups when their indexes differ. When
\* all are equal (one group only; every group filtered to nothing) it stacks them
\* into a frame indexed by group key: flags_series.index then holds group keys,
\* none of them a row label of df, and line 53 raises KeyError.
ApplyStacks(applied) ==
  /\ DOMAIN applied # {}
  /\ \A k1, k2 \in DOMAIN applied : DOMAIN applied[k1] = DOMAIN applied[k2]

\* No row has a complete key: apply() returns an empty frame, and line 53 is given
\* an empty index, which it either rejects or finds nothing to overwrite with.
ApplyEmpty(applied) == DOMAIN applied = {}

\* flags_series, the per-group Series concatenated.
FlagsSeries(df, applied) ==
  LET idx == UNION {DOMAIN applied[k] : k \in DOMAIN applied}
  IN  [i \in idx |-> applied[GroupKey(df[i])][i]]

\* Lines 52-53: 'other' everywhere, then the labels of flags_series overwritten.
ProcCodeFlag(flags_series, i) ==
  IF i \in DOMAIN flags_series THEN flags_series[i] ELSE "other"

\* Lines 56-59
TargetCode(l, flag) ==
  IF flag \in {"target", "duplicate"} THEN l.procedure_code ELSE Null

\* Lines 52-61: the table returned.
FlaggedTable(df, applied) ==
  LET flags_series == FlagsSeries(df, applied)
  IN  [i \in DOMAIN df |->
         df[i] @@ [proc_code_flag |-> ProcCodeFlag(flags_series, i),
                   target_code |->
                     TargetCode(df[i], ProcCodeFlag(flags_series, i))]]

\* first_date and last_date (lines 35-36) of the groups that get that far.
GroupLocals(df, applied) ==
  {LET group == SortedGroup(df, GroupRows(df, k))
   IN  [key |-> k, first_date |-> FirstDate(df, group),
        last_date |-> LastDate(df, group)] :
     k \in {x \in DOMAIN applied : Cardinality(DOMAIN applied[x]) >= 2}}

TInit ==
  /\ \E n \in 1..MaxLines : tdf \in TemporalTables(n)
  /\ tpc = "start"
  /\ tout = Null
  /\ tlocals = {}

\* No pass of flagger.py under way.
TIdle ==
  /\ tdf = << >>
  /\ tpc = "idle"
  /\ tout = Null
  /\ tlocals = {}

\* add_proc_code_flag(df) of flagger.py, from call to return.
AddProcCodeFlag ==
  /\ tpc = "start"
  /\ LET df == Prepare(tdf)
         applied == Applied(df)
     IN  /\ ~ApplyStacks(applied)
         /\ tout' = FlaggedTable(df, applied)
         /\ tlocals' = GroupLocals(df, applied)
  /\ tpc' = "done"
  /\ UNCHANGED <<tdf, evars>>

\* add_proc_code_flag(df) of flagger.py raising at line 53.
AddProcCodeFlagRaises ==
  /\ tpc = "start"
  /\ LET applied == Applied(Prepare(tdf))
     IN  ApplyStacks(applied) \/ ApplyEmpty(applied)
  /\ tpc' = "error"
  /\ UNCHANGED <<tdf, tout, tlocals, evars>>

TNext == AddProcCodeFlag \/ AddProcCodeFlagRaises

\* ------------------------------------------------------------ ptscript.py
required_columns ==
  {"payer_control_number", "member_medicare_id", "service_date",
   "rendering_provider_npi", "procedure_code"}

Encounter(pcn) ==
  [payer_control_number |-> pcn, member_medicare_id |-> "M1",
   service_date |-> "2024-01-05", rendering_provider_npi |-> "N1"]

Encounters == {Encounter("P1"), Encounter("P2")}

\* Procedure codes are one character long in the model; << >> is ''.
ProcedureCodes == {<< >>, <<"A">>, <<"B">>}

ClaimLines == {e @@ [procedure_code |-> c] : e \in Encounters, c \in ProcedureCodes}

ClaimTables(n) == [1..n -> ClaimLines]

\* The columns of the table given: all the required ones, or all but one.
ColumnSets == {required_columns} \cup {required_columns \ {c} : c \in required_columns}

\* The texts Athena writes for a non-empty array of codes.
IntersectTexts ==
  {<<"[", "A", "]">>, <<"[", "B", "]">>,
   <<"[", "A", ",", " ", "B", "]">>, <<"[", "B", ",", "A", "]">>}

\* The merge key of a claim line or of a row of the lookup result.
EncounterOf(r) ==
  [payer_control_number |-> r.payer_control_number,
   member_medicare_id |-> r.member_medicare_id,
   service_date |-> r.service_date,
   rendering_provider_npi |-> r.rendering_provider_npi]

\* Lines 98-142: the query groups by the four encounter columns and keeps the
\* groups whose two intersections are non-empty, so its result holds at most one
\* row per encounter, each with two non-empty arrays.
RECURSIVE ResultsOver(_)
ResultsOver(E) ==
  IF E = {} THEN {{}}
  ELSE LET e == CHOOSE x \in E : TRUE
       IN  {R \cup one :
              R \in ResultsOver(E \ {e}),
              one \in {{}} \cup
                      {{e @@ [ref_intersect |-> Some(r), target_intersect |-> Some(t)]} :
                         r \in IntersectTexts, t \in IntersectTexts}}

LookupResults == ResultsOver(Encounters)

\* str.replace(c, '')
RECURSIVE Remove(_, _)
Remove(s, c) ==
  IF s = << >> THEN << >>
  ELSE IF Head(s) = c THEN Remove(Tail(s), c)
  ELSE <<Head(s)>> \o Remove(Tail(s), c)

\* str.split(c): the pieces between the occurrences of c, at least one piece.
RECURSIVE Split(_, _)
Split(s, c) ==
  IF \E i \in DOMAIN s : s[i] = c
  THEN LET i == CHOOSE x \in DOMAIN s : s[x] = c /\ \A j \in 1..(x - 1) : s[j] # c
       IN  <<SubSeq(s, 1, i - 1)>> \o Split(SubSeq(s, i + 1, Len(s)), c)
  ELSE <<s>>

\* Lines 157-159 (and 161-163): one cell of ref_intersect / target_intersect.
CleanIntersect(cell) ==
  LET parts == Split(Remove(Remove(cell[1], "["), "]"), ",")
  IN  Some([i \in DOMAIN parts |-> Strip(parts[i])])

\* df_target_ref_clean
CleanReference(data) ==
  {[r EXCEPT !.ref_intersect = CleanIntersect(@),
             !.target_intersect = CleanIntersect(@)] : r \in data}

RECURSIVE SetToSeq(_)
SetToSeq(S) ==
  IF S = {} THEN << >>
  ELSE LET x == CHOOSE y \in S : TRUE IN <<x>> \o SetToSeq(S \ {x})

\* MergeLine with how='inner'.
MergeLineInner(line, clean) ==
  LET matches == SetToSeq({r \in clean : EncounterOf(r) = EncounterOf(line)})
  IN  [k \in DOMAIN matches |->
         line @@ [ref_intersect |-> matches[k].ref_intersect,
                  target_intersect |-> matches[k].target_intersect]]

\* df.merge(..., how='left') for one left row: one row per matching right row,
\* or one row with missing right columns when none matches.
MergeLine(line, clean) ==
  LET matches == SetToSeq({r \in clean : EncounterOf(r) = EncounterOf(line)})
  IN  IF matches = << >>
      THEN <<line @@ [ref_intersect |-> Null, target_intersect |-> Null]>>
      ELSE [k \in DOMAIN matches |->
              line @@ [ref_intersect |-> matches[k].ref_intersect,
                       target_intersect |-> matches[k].target_intersect]]

RECURSIVE Merge(_, _)
Merge(rows, clean) ==
  IF rows = << >> THEN << >>
  ELSE MergeLine(Head(rows), clean) \o Merge(Tail(rows), clean)

\* Lines 172-173, `[''] if pd.isna(x) else x`: pd.isna of a list is an array of
\* booleans, and the truth value of an array of 2 or more elements raises
\* ValueError.
IsnaRaises(x) == x # Null /\ Len(x[1]) # 1

\* Lines 172-173 where they do not raise: NaN becomes [''].
FillIntersect(x) == IF x = Null THEN << << >> >> ELSE x[1]

In(code, codes) == \E i \in DOMAIN codes : codes[i] = code

\* flag_row with the two tests in the other order.
flag_rowTargetFirst(row) ==
  IF In(row.procedure_code, row.target_intersect) THEN "target"
  ELSE IF In(row.procedure_code, row.ref_intersect) THEN "reference"
  ELSE "other"

\* flag_row
flag_row(row) ==
  IF In(row.procedure_code, row.ref_intersect) THEN "reference"
  ELSE IF In(row.procedure_code, row.target_intersect) THEN "target"
  ELSE "other"

\* Lines 172-185 on the merged table.
FlagMerged(merged) ==
  [i \in DOMAIN merged |->
     LET row == [merged[i] EXCEPT !.ref_intersect = FillIntersect(@),
                                  !.target_intersect = FillIntersect(@)]
     IN  row @@ [proc_code_flag |-> flag_row(row)]]

EInit ==
  /\ \E n \in 1..MaxClaimLines, cols \in ColumnSets :
        edf \in {[columns |-> cols, rows |-> t] : t \in ClaimTables(n)}
  /\ epc = "start"
  /\ eerr = "none"
  /\ eout = Null
  /\ issued = FALSE
  /\ remote = "NONE"
  /\ query_state = "unset"
  /\ referance_data = Null
  /\ failure = "none"

\* No pass of ptscript.py under way.
EIdle ==
  /\ edf = [columns |-> {}, rows |-> << >>]
  /\ epc = "idle"
  /\ eerr = "none"
  /\ eout = Null
  /\ issued = FALSE
  /\ remote = "NONE"
  /\ query_state = "unset"
  /\ referance_data = Null
  /\ failure = "none"

\* add_proc_code_flag raises exc.
Raise(exc, why) ==
  /\ epc' = "error"
  /\ eerr' = exc
  /\ failure' = why

\* Lines 89-91: a required column is missing.
MissingColumn ==
  /\ epc = "start"
  /\ ~(required_columns \subseteq edf.columns)
  /\ Raise("ValueError", "missing_column")
  /\ UNCHANGED <<tvars, edf, eout, issued, remote, query_state, referance_data>>

\* Lines 89-146 and 28-34: the columns are there, the query is started.
StartQuery ==
  /\ epc = "start"
  /\ required_columns \subseteq edf.columns
  /\ issued' = TRUE
  /\ remote' = "QUEUED"
  /\ epc' = "poll"
  /\ UNCHANGED <<tvars, edf, eerr, eout, query_state, referance_data, failure>>

\* Lines 28-33 raise; run_query returns None (57-60), line 153 raises.
StartQueryRaises ==
  /\ epc = "start"
  /\ required_columns \subseteq edf.columns
  /\ issued' = TRUE
  /\ Raise("RuntimeError", "start_query_execution")
  /\ UNCHANGED <<tvars, edf, eout, remote, query_state, referance_data>>

\* Athena: the query moves on.
RemoteProgress ==
  /\ epc \in {"poll", "test"}
  /\ \/ remote = "QUEUED" /\ remote' \in {"RUNNING", "FAILED", "CANCELLED"}
     \/ remote = "RUNNING" /\ remote' \in {"SUCCEEDED", "FAILED", "CANCELLED"}
  /\ UNCHANGED <<tvars, edf, epc, eerr, eout, issued, query_state, referance_data, failure>>

\* Lines 37-38
GetQueryExecution ==
  /\ epc = "poll"
  /\ query_state' = remote
  /\ epc' = "test"
  /\ UNCHANGED <<tvars, edf, eerr, eout, issued, remote, referance_data, failure>>

\* Line 37 raises; run_query returns None (57-60), line 153 raises.
GetQueryExecutionRaises ==
  /\ epc = "poll"
  /\ Raise("RuntimeError", "get_query_execution")
  /\ UNCHANGED <<tvars, edf, eout, issued, remote, query_state, referance_data>>

\* TestState going on to read the result after any final state.
TestStateAnyFinal ==
  /\ epc = "test"
  /\ IF query_state \in {"SUCCEEDED", "FAILED", "CANCELLED"}
     THEN epc' = "fetch"
     ELSE epc' = "poll"
  /\ UNCHANGED <<tvars, edf, eerr, eout, issued, remote, query_state, referance_data, failure>>

\* Lines 39-42 and 54-56: leave the loop on a final state, poll again otherwise.
TestState ==
  /\ epc = "test"
  /\ IF query_state \in {"SUCCEEDED", "FAILED", "CANCELLED"}
     THEN IF query_state = "SUCCEEDED"
          THEN epc' = "fetch" /\ UNCHANGED <<eerr, failure>>
          ELSE Raise("RuntimeError", query_state)
     ELSE epc' = "poll" /\ UNCHANGED <<eerr, failure>>
  /\ UNCHANGED <<tvars, edf, eout, issued, remote, query_state, referance_data>>

\* Lines 44-53: reading the result raises; run_query returns None, line 153 raises.
FetchRaises ==
  /\ epc = "fetch"
  /\ Raise("RuntimeError", "get_object")
  /\ UNCHANGED <<tvars, edf, eout, issued, remote, query_state, referance_data>>

\* Lines 48 and 157: the object read is a CSV without the two array columns.
FetchOtherColumns ==
  /\ epc = "fetch"
  /\ Raise("KeyError", "columns")
  /\ UNCHANGED <<tvars, edf, eout, issued, remote, query_state, referance_data>>

\* Lines 44-49 and 155-187: the result is read, cleaned, merged and flagged.
FetchAndFlag ==
  /\ epc = "fetch"
  /\ \E data \in LookupResults :
        LET merged == Merge(edf.rows, CleanReference(data))
        IN  /\ referance_data' = Some(data)
            /\ IF \E i \in DOMAIN merged :
                    IsnaRaises(merged[i].target_intersect)
                      \/ IsnaRaises(merged[i].ref_intersect)
               THEN Raise("ValueError", "isna") /\ UNCHANGED eout
               ELSE /\ eout' = FlagMerged(merged)
                    /\ epc' = "done"
                    /\ UNCHANGED <<eerr, failure>>
  /\ UNCHANGED <<tvars, edf, issued, remote, query_state>>

ENext ==
  \/ MissingColumn
  \/ StartQuery
  \/ StartQueryRaises
  \/ RemoteProgress
  \/ GetQueryExecution
  \/ GetQueryExecutionRaises
  \/ TestState
  \/ FetchRaises
  \/ FetchOtherColumns
  \/ FetchAndFlag

\* ------------------------------------------------------------ specifications
TemporalInit == TInit /\ EIdle

EditPairInit == TIdle /\ EInit

Init == TemporalInit \/ EditPairInit

Next == TNext \/ ENext

\* One pass of either classifier.
Spec == Init /\ [][Next]_vars

\* One pass of the edit-pair classifier, the code never pausing for ever; Athena
\* and the failures of the calls are not forced.
FairEditPair ==
  /\ EditPairInit
  /\ [][ENext]_vars
  /\ WF_vars(MissingColumn \/ StartQuery)
  /\ WF_vars(GetQueryExecution)
  /\ WF_vars(TestState)
  /\ WF_vars(FetchAndFlag)

\* ------------------------------------------------------------ properties
\* The rows of the returned table in the cohort of row i: same member,
\* procedure code, four modifiers and quantity (missing values alike).
Cohort(i) ==
  LET key == GroupKey(tout[i]) IN {j \in DOMAIN tout : GroupKey(tout[j]) = key}

\* Those of them paid more than 75.
Surviving(i) ==
  LET key == GroupKey(tout[i])
  IN  {j \in DOMAIN tout : tout[j].plan_paid_amount > 75 /\ GroupKey(tout[j]) = key}

\* The days of the surviving lines that have one.
SurvivingDays(i) ==
  {tout[j].claim_received_date[1] :
     j \in {x \in Surviving(i) : tout[x].claim_received_date # NaT}}

Earliest(D) == CHOOSE d \in D : \A e \in D : d <= e

Latest(D) == CHOOSE d \in D : \A e \in D : e <= d

HasNullDate(i) == \E j \in Surviving(i) : tout[j].claim_received_date = NaT

Flags == {"reference", "target", "duplicate", "other"}

C2_AsClaimed ==
  tpc = "done" =>
    \A i \in DOMAIN tout :
      (Cardinality(Surviving(i)) >= 2 /\ ~HasNullDate(i)
         /\ Cardinality(SurvivingDays(i)) = 1)
      => \A j \in Surviving(i) : tout[j].proc_code_flag = "duplicate"

C6_AsClaimed ==
  tpc = "done" =>
    \A i \in DOMAIN tout :
      (KeyHasNull(tout[i]) /\ Cardinality(Surviving(i)) >= 2
         /\ ~HasNullDate(i) /\ Cardinality(SurvivingDays(i)) >= 2)
      => \A j \in Surviving(i) :
           /\ tout[j].claim_received_date = Some(Earliest(SurvivingDays(i)))
                => tout[j].proc_code_flag = "reference"
           /\ tout[j].claim_received_date = Some(Latest(SurvivingDays(i)))
                => tout[j].proc_code_flag = "target"

\* C10, as claimed: in a sorted group of 2+ surviving lines with a null date
\* among them, the first line has a null date and the last line has the latest
\* day, when there is one.
C10_AsClaimed ==
  tpc = "done" =>
    \A i \in DOMAIN tout :
      LET D == SurvivingDays(i)
      IN  (~KeyHasNull(tout[i]) /\ HasNullDate(i) /\ Cardinality(Surviving(i)) >= 2)
          => \E loc \in tlocals :
               /\ loc.key = GroupKey(tout[i])
               /\ loc.first_date = NaT
               /\ loc.last_date = IF D = {} THEN NaT ELSE Some(Latest(D))

\* C10, amended: null dates are placed last: the first line of the sorted group
\* has the earliest day, when there is one, and the last line has a null date.
C10_Amended ==
  tpc = "done" =>
    \A i \in DOMAIN tout :
      LET D == SurvivingDays(i)
      IN  (~KeyHasNull(tout[i]) /\ HasNullDate(i) /\ Cardinality(Surviving(i)) >= 2)
          => \E loc \in tlocals :
               /\ loc.key = GroupKey(tout[i])
               /\ loc.last_date = NaT
               /\ loc.first_date = IF D = {} THEN NaT ELSE Some(Earliest(D))

\* A group of three surviving lines, one undated and two on different days.
C10_Witness ==
  /\ tpc = "done"
  /\ \E i, j, k \in DOMAIN tout :
       /\ Surviving(i) = {i, j, k}
       /\ tout[i].claim_received_date = NaT
       /\ tout[j].claim_received_date = Some(1)
       /\ tout[k].claim_received_date = Some(2)
       /\ \E loc \in tlocals :
            loc.first_date = Some(1) /\ loc.last_date = NaT

\* The codes an array text of the lookup result names.
CodesIn(cell) ==
  {<<cell[1][x]>> : x \in {y \in DOMAIN cell[1] : cell[1][y] \notin {"[", "]", ",", " "}}}

\* The rows of the lookup result for the encounter of a flagged row.
LookupRowsOf(row) == {r \in referance_data[1] : EncounterOf(r) = EncounterOf(row)}

C5_AsClaimed ==
  epc = "done" =>
    \A i \in DOMAIN eout :
      LookupRowsOf(eout[i]) = {} => eout[i].proc_code_flag = "other"

\* C7: a pass that returns a table returns one row per row given, in order, each
\* the row given with a flag of the four.
C7_Holds ==
  /\ tpc = "done" =>
       /\ Len(tout) = Len(tdf)
       /\ \A i \in DOMAIN tdf :
            /\ i \in DOMAIN tout
            /\ tout[i].member_medicare_id = tdf[i].member_medicare_id
            /\ tout[i].plan_paid_amount = tdf[i].plan_paid_amount
            /\ tout[i].claim_received_date \in {NaT, Some(tdf[i].claim_received_date)}
            /\ tout[i].proc_code_flag \in Flags
  /\ epc = "done" =>
       /\ Len(eout) = Len(edf.rows)
       /\ \A i \in DOMAIN edf.rows :
            /\ i \in DOMAIN eout
            /\ \A c \in required_columns : eout[i][c] = edf.rows[i][c]
            /\ eout[i].proc_code_flag \in Flags

\* Two claim lines, one of an encounter the lookup result has a row for, one of
\* an encounter it has none for, and both returned.
C7_Witness ==
  /\ epc = "done"
  /\ Len(eout) = 2
  /\ LookupRowsOf(eout[1]) # {}
  /\ LookupRowsOf(eout[2]) = {}

LookupFailures ==
  {"start_query_execution", "get_query_execution", "FAILED", "CANCELLED",
   "get_object", "columns"}

\* C8: a table is returned only after the query succeeded and its result was
\* read; a query seen FAILED or CANCELLED, a call that raised or a result that
\* could not be read leaves the pass raised with no table; with a required column
\* missing the pass raises ValueError, no query was started and there is no table.
C8_Holds ==
  /\ eout # Null =>
       /\ epc = "done" /\ eerr = "none" /\ failure = "none"
       /\ query_state = "SUCCEEDED" /\ referance_data # Null
       /\ required_columns \subseteq edf.columns
  /\ (query_state \in {"FAILED", "CANCELLED"} /\ epc # "test") =>
       (epc = "error" /\ eerr = "RuntimeError" /\ eout = Null)
  /\ failure \in LookupFailures =>
       (epc = "error" /\ eerr \in {"RuntimeError", "KeyError"} /\ eout = Null)
  /\ (epc # "idle" /\ ~(required_columns \subseteq edf.columns)) =>
       /\ ~issued /\ eout = Null /\ remote = "NONE"
       /\ epc \in {"start", "error"}
       /\ epc = "error" => eerr = "ValueError"

\* The query was seen FAILED and the pass raised, with no table.
C8_Witness ==
  /\ query_state = "FAILED"
  /\ failure = "FAILED"
  /\ epc = "error"
  /\ eerr = "RuntimeError"
  /\ eout = Null

\* C9: the polling loop of run_query always comes to an end.
C9_AsClaimed == (epc = "poll") ~> (epc \in {"fetch", "done", "error"})

====
